---- MODULE Spec2Model ----
(***************************************************************************)
(* The chat request/response pipeline of portfolio-sdk: the three server   *)
(* handlers of src/src/server (createManualRAGHandler,                     *)
(* createPortfolioHandler, createBackendHandler) with the process-wide     *)
(* session store, and the AutoChat widget of src/src/components.           *)
(*                                                                         *)
(* Text is a sequence of tokens.  A token is a character (" " is the only  *)
(* whitespace character of the model) or a literal fragment of the source  *)
(* such as the fallback instruction, so that trim, concatenation and       *)
(* emptiness are computed and not assumed.                                 *)
(***************************************************************************)
EXTENDS Integers, Sequences, FiniteSets, TLC

VARIABLES
  config,        \* the configuration the handler was constructed from
  sessionStore,  \* the Map of the Manual handler: sessionId -> array reference (0: no entry)
  heap,          \* array reference -> contents (JavaScript arrays are shared by reference)
  req,           \* per request slot: the position of one POST and its locals
  turns,         \* per sessionId: turns pushed so far; the logical clock behind Date.now()
  serverHeld,    \* history variable: the session was fed by non-overlapping POSTs without client history
  overlaps,      \* history variable: POSTs accepted while another POST was in flight
  localStorage,  \* the browser's portfolioSessionId item ("": none)
  widget,        \* the state of one AutoChat instance and of its sendMessage call
  net            \* history variable: the widget's network calls and the bytes read

serverVars == <<config, sessionStore, heap, req, turns, serverHeld, overlaps>>
widgetVars == <<localStorage, widget, net>>
vars == <<config, sessionStore, heap, req, turns, serverHeld, overlaps,
          localStorage, widget, net>>

-----------------------------------------------------------------------------
(* Bounds *)

\* a session accepts POSTs until this many turns have been pushed to it
MaxTurns == 22

\* POSTs a long run accepts while another POST is in flight
MaxOverlaps == 1

\* The session cap of the Manual handler
SessionCap == 20

Slots == {1, 2}
SessionIds == {"s1", "s2"}
Refs == 1 .. (Cardinality(SessionIds) + Cardinality(Slots) + 1)

-----------------------------------------------------------------------------
(* JavaScript values *)

\* a field that is absent from the JSON body
Undefined == <<"undefined">>
\* JSON null
Null == <<"null">>
\* the sessionId of a body that has none (or an empty one)
NoSessionId == ""

WS == " "

\* !v is false: v is a non-empty string
Truthy(v) == v # Undefined /\ v # Null /\ v # <<>>

RECURSIVE TrimLeft(_)
TrimLeft(s) == IF s # <<>> /\ Head(s) = WS THEN TrimLeft(Tail(s)) ELSE s

RECURSIVE TrimRight(_)
TrimRight(s) ==
  IF s # <<>> /\ s[Len(s)] = WS THEN TrimRight(SubSeq(s, 1, Len(s) - 1)) ELSE s

\* String.prototype.trim
Trim(s) == TrimRight(TrimLeft(s))

\* slice(-n) written with the wrong end: the oldest n entries are kept
SliceLastKeepsOldest(s, n) == IF Len(s) > n THEN SubSeq(s, 1, n) ELSE s

\* Array.prototype.slice(-n): the last n entries, in order
SliceLast(s, n) == IF Len(s) > n THEN SubSeq(s, Len(s) - n + 1, Len(s)) ELSE s

\* Array.prototype.slice(0, n)
SliceTo(s, n) == IF Len(s) > n THEN SubSeq(s, 1, n) ELSE s

ChatMessage(r, c, t) == [role |-> r, content |-> c, timestamp |-> t]

\* an error thrown by a collaborator: status 0 stands for "no status field"
Err(st, msg) == [status |-> st, message |-> msg]

-----------------------------------------------------------------------------
(* Document retrieval: normalisation of the search result *)

SEP == "\n\n---\n\n"
CtxHead == "Here is relevant information from the portfolio:\n\n"
CtxTail == "\n\nNow answer the user's question."
Fallback == "No specific context found. Answer based on general knowledge if appropriate."
QuestionTag == "\n\nQuestion: "
NoResponseGenerated == "No response generated"

\* a document of the search result; a field that is absent is Undefined, and chunks
\* is the list of the chunks' contents (<<>> when chunks is no array)
Doc(content, summary, metaSummary, metaDescription, chunks) ==
  [content |-> content, summary |-> summary, metaSummary |-> metaSummary,
   metaDescription |-> metaDescription, chunks |-> chunks]

\* Array.isArray(docResults?.results) ? results : []
Documents(out) == IF out.isArray THEN out.results ELSE <<>>

RECURSIVE ChunkSegments(_)
ChunkSegments(chunks) ==
  IF chunks = <<>> THEN <<>>
  ELSE (IF Head(chunks) # Undefined THEN <<Head(chunks)>> ELSE <<>>)
       \o ChunkSegments(Tail(chunks))

RECURSIVE FilterBoolean(_)
FilterBoolean(segs) ==
  IF segs = <<>> THEN <<>>
  ELSE (IF Truthy(Head(segs)) THEN <<Head(segs)>> ELSE <<>>) \o FilterBoolean(Tail(segs))

\* the flatMap callback: the text segments of one document
Segments(doc) ==
  FilterBoolean(
    (IF doc.content # Undefined THEN <<doc.content>> ELSE <<>>)
    \o (IF Truthy(doc.summary) THEN <<doc.summary>> ELSE <<>>)
    \o (IF Truthy(doc.metaSummary) \/ Truthy(doc.metaDescription)
        THEN <<IF doc.metaSummary # Undefined THEN doc.metaSummary ELSE doc.metaDescription>>
        ELSE <<>>)
    \o ChunkSegments(doc.chunks))

RECURSIVE FlatSegments(_)
FlatSegments(docs) ==
  IF docs = <<>> THEN <<>> ELSE Segments(Head(docs)) \o FlatSegments(Tail(docs))

RECURSIVE Join(_)
Join(segs) ==
  IF segs = <<>> THEN <<>>
  ELSE IF Len(segs) = 1 THEN Head(segs)
  ELSE Head(segs) \o <<SEP>> \o Join(Tail(segs))

\* documents.flatMap(...).filter(Boolean).join(SEP)
Context(docs) == Join(FilterBoolean(FlatSegments(docs)))

\* a prompt that frames the context without looking at it
ContextPromptAlwaysFramed(context) == <<CtxHead>> \o context \o <<CtxTail>>

ContextPrompt(context) ==
  IF context # <<>> THEN <<CtxHead>> \o context \o <<CtxTail>> ELSE <<Fallback>>

\* `${contextPrompt}\n\nQuestion: ${message}`
UserTurn(context, message) == ContextPrompt(context) \o <<QuestionTag>> \o message

\* a mapping that loses the oldest turn
StripTimestampsDropsFirst(h) ==
  [i \in 1 .. Len(h) - 1 |-> [role |-> h[i + 1].role, content |-> h[i + 1].content]]

RECURSIVE StripTimestamps(_)
StripTimestamps(h) ==
  IF h = <<>> THEN <<>>
  ELSE <<[role |-> Head(h).role, content |-> Head(h).content]>> \o StripTimestamps(Tail(h))

-----------------------------------------------------------------------------
(* Requests, responses and the shared arrays *)

Body(json, message, sessionId, history) ==
  [json |-> json, message |-> message, sessionId |-> sessionId, history |-> history]

\* "history": null in the body; an absent history is <<>>, its default
\* (const { message, sessionId, history = [] } = body)
NullHistory == <<ChatMessage("null", <<>>, 0)>>

NoBody == Body(FALSE, Undefined, NoSessionId, <<>>)

\* Response.json(...) or a text stream; kind "none": no response yet
Resp(status, kind, answer, error) ==
  [status |-> status, kind |-> kind, answer |-> answer, error |-> error]

NoResp == Resp(0, "none", Undefined, "")

\* a request slot: the position of the POST, its locals, the calls it has made
\* (nSearch, nGenerate), how they settled (searchThrew, generated, and the error
\* thrown by the one that threw), its response, and the clock of its session when
\* it read the session store (readAt)
IdleReq ==
  [pc |-> "idle", body |-> NoBody, sessionHistory |-> 0, documents |-> <<>>,
   sent |-> <<>>, nSearch |-> 0, nGenerate |-> 0, searchThrew |-> FALSE,
   generated |-> "none", thrown |-> Err(0, ""), resp |-> NoResp, readAt |-> 0]

\* how a generation call settled: it threw, it yielded no text, it yielded text
Generated(out) ==
  IF out.throws THEN "threw"
  ELSE IF ~Truthy(out.text) \/ Len(Trim(out.text)) = 0 THEN "empty"
  ELSE "text"

\* error.message || 'Internal server error'
ErrorMessage(e) == IF e.message # "" THEN e.message ELSE "Internal server error"

JsonSyntaxError == Err(0, "Unexpected token in JSON")
NullLengthError == Err(0, "Cannot read properties of null")

InFlight(rq) == rq.pc \in {"searching", "generating"}

Referenced(store, rq) ==
  ({store[s] : s \in SessionIds} \cup {rq[r].sessionHistory : r \in Slots}) \ {0}

\* one array object handed out to every caller that needs a new one
FreshRefShared(store, rq) == 1

\* a new array object: the least reference nothing holds
FreshRef(store, rq) ==
  CHOOSE x \in Refs :
    /\ x \notin Referenced(store, rq)
    /\ \A y \in Refs : y \notin Referenced(store, rq) => x <= y

\* arrays nothing refers to any more are dropped
Collect(h, store, rq) ==
  [x \in Refs |-> IF x \in Referenced(store, rq) THEN h[x] ELSE <<>>]

\* the history stored for a sessionId (sessionStore.get(sessionId) || [])
Stored(s) == IF sessionStore[s] = 0 THEN <<>> ELSE heap[sessionStore[s]]

\* a handler whose catch lets a failure without a status escape: POST rejects
\* and no response is returned
RespondRethrows(rq, resp) ==
  [rq EXCEPT !.pc = IF resp.status = 500 THEN "threw" ELSE "done",
             !.sessionHistory = 0, !.documents = <<>>, !.sent = <<>>,
             !.resp = IF resp.status = 500 THEN rq.resp ELSE resp]

\* a request ends with a response; its locals die
Respond(rq, resp) ==
  [rq EXCEPT !.pc = "done", !.sessionHistory = 0, !.documents = <<>>, !.sent = <<>>,
             !.resp = resp]

-----------------------------------------------------------------------------
(* createManualRAGHandler.POST *)

\* a handler that works on a copy of the stored history ([...stored])
ManualPostCopies(r, body) ==
  /\ config.variant = "manual"
  /\ req[r].pc \in {"idle", "done"}
  /\ overlaps' = overlaps + (IF \E q \in Slots \ {r} : InFlight(req[q]) THEN 1 ELSE 0)
  /\ LET start == [IdleReq EXCEPT !.body = body]
         sid == body.sessionId
         history == body.history
     IN IF ~body.json
        THEN /\ req' = [req EXCEPT ![r] =
                          Respond(start, Resp(500, "json", Undefined, ErrorMessage(JsonSyntaxError)))]
             /\ UNCHANGED <<sessionStore, heap, serverHeld>>
        ELSE IF ~Truthy(body.message) \/ sid = NoSessionId
        THEN /\ req' = [req EXCEPT ![r] =
                          Respond(start, Resp(400, "json", Undefined, "Missing message or sessionId"))]
             /\ UNCHANGED <<sessionStore, heap, serverHeld>>
        ELSE IF history = NullHistory
        THEN /\ req' = [req EXCEPT ![r] =
                          Respond(start, Resp(500, "json", Undefined, ErrorMessage(NullLengthError)))]
             /\ UNCHANGED <<sessionStore, heap, serverHeld>>
        ELSE LET others == [req EXCEPT ![r] = start]
                 useClient == Len(history) > 0
                 ref == FreshRef(sessionStore, others)
                 overlap == \E q \in Slots \ {r} :
                              InFlight(req[q]) /\ req[q].body.sessionId = sid
             IN /\ req' = [req EXCEPT ![r] =
                             [start EXCEPT !.pc = "searching", !.sessionHistory = ref,
                                           !.nSearch = 1, !.readAt = turns[sid]]]
                /\ heap' = Collect([heap EXCEPT ![ref] = IF useClient THEN history ELSE Stored(sid)],
                                   sessionStore, req')
                /\ serverHeld' = [serverHeld EXCEPT ![sid] = @ /\ ~useClient /\ ~overlap]
                /\ UNCHANGED sessionStore
  /\ UNCHANGED <<config, turns>>

\* from the call to the first await after the body is parsed: validation, the
\* read of the session store, and the search call
ManualPost(r, body) ==
  /\ config.variant = "manual"
  /\ req[r].pc \in {"idle", "done"}
  /\ overlaps' = overlaps + (IF \E q \in Slots \ {r} : InFlight(req[q]) THEN 1 ELSE 0)
  /\ LET start == [IdleReq EXCEPT !.body = body]
         sid == body.sessionId
         history == body.history
     IN IF ~body.json
        THEN /\ req' = [req EXCEPT ![r] =
                          Respond(start, Resp(500, "json", Undefined, ErrorMessage(JsonSyntaxError)))]
             /\ UNCHANGED <<sessionStore, heap, serverHeld>>
        ELSE IF ~Truthy(body.message) \/ sid = NoSessionId
        THEN /\ req' = [req EXCEPT ![r] =
                          Respond(start, Resp(400, "json", Undefined, "Missing message or sessionId"))]
             /\ UNCHANGED <<sessionStore, heap, serverHeld>>
        ELSE IF history = NullHistory
        THEN /\ req' = [req EXCEPT ![r] =
                          Respond(start, Resp(500, "json", Undefined, ErrorMessage(NullLengthError)))]
             /\ UNCHANGED <<sessionStore, heap, serverHeld>>
        ELSE LET others == [req EXCEPT ![r] = start]
                 useClient == Len(history) > 0
                 ref == IF ~useClient /\ sessionStore[sid] # 0
                        THEN sessionStore[sid]
                        ELSE FreshRef(sessionStore, others)
                 overlap == \E q \in Slots \ {r} :
                              InFlight(req[q]) /\ req[q].body.sessionId = sid
             IN /\ req' = [req EXCEPT ![r] =
                             [start EXCEPT !.pc = "searching", !.sessionHistory = ref,
                                           !.nSearch = 1, !.readAt = turns[sid]]]
                /\ heap' = Collect([heap EXCEPT ![ref] = IF useClient THEN history ELSE @],
                                   sessionStore, req')
                /\ serverHeld' = [serverHeld EXCEPT ![sid] = @ /\ ~useClient /\ ~overlap]
                /\ UNCHANGED sessionStore
  /\ UNCHANGED <<config, turns>>

\* the search call settles: context, prompt and the provider call
ManualSearchReturn(r, out) ==
  /\ config.variant = "manual"
  /\ req[r].pc = "searching"
  /\ IF out.throws
     THEN /\ req' = [req EXCEPT ![r] =
                       Respond([@ EXCEPT !.searchThrew = TRUE, !.thrown = out.error],
                               Resp(500, "json", Undefined, ErrorMessage(out.error)))]
          /\ heap' = Collect(heap, sessionStore, req')
     ELSE LET documents == Documents(out)
              messages == StripTimestamps(heap[req[r].sessionHistory])
                          \o <<[role |-> "user",
                                content |-> UserTurn(Context(documents), req[r].body.message)]>>
          IN /\ req' = [req EXCEPT ![r] =
                          [@ EXCEPT !.pc = "generating", !.documents = documents,
                                    !.sent = messages, !.nGenerate = @ + 1]]
             /\ UNCHANGED heap
  /\ UNCHANGED <<config, sessionStore, turns, serverHeld, overlaps>>

\* response.content[0]?.type === 'text' ? response.content[0].text : '...'
ManualAnswer(text) == IF text # Undefined THEN text ELSE <<NoResponseGenerated>>

\* a handler that records the user turn before it calls the model, so that a
\* failed generation leaves it in the store
ManualGenerateReturnKeepsUserTurn(r, out) ==
  /\ config.variant = "manual"
  /\ req[r].pc = "generating"
  /\ LET sid == req[r].body.sessionId
         ref == req[r].sessionHistory
         answer == ManualAnswer(out.text)
         pushed == heap[ref]
                   \o <<ChatMessage("user", req[r].body.message, turns[sid] + 1)>>
                   \o (IF out.throws THEN <<>>
                       ELSE <<ChatMessage("assistant", answer, turns[sid] + 2)>>)
         kept == IF Len(pushed) > SessionCap THEN FreshRef(sessionStore, req) ELSE ref
         heap1 == [heap EXCEPT ![ref] = pushed]
         heap2 == [heap1 EXCEPT ![kept] = SliceLast(pushed, SessionCap)]
     IN /\ sessionStore' = [sessionStore EXCEPT ![sid] = kept]
        /\ req' = [req EXCEPT ![r] =
                     IF out.throws
                     THEN Respond([@ EXCEPT !.generated = Generated(out),
                                            !.thrown = out.error],
                                  Resp(500, "json", Undefined, ErrorMessage(out.error)))
                     ELSE Respond([@ EXCEPT !.generated = Generated(out)],
                                  Resp(200, "json", answer, ""))]
        /\ heap' = Collect(heap2, sessionStore', req')
        /\ turns' = [turns EXCEPT ![sid] = @ + 2]
  /\ UNCHANGED <<config, serverHeld, overlaps>>

\* the provider call settles: the two pushes, the cap, the write back, the response
ManualGenerateReturn(r, out) ==
  /\ config.variant = "manual"
  /\ req[r].pc = "generating"
  /\ IF out.throws
     THEN /\ req' = [req EXCEPT ![r] =
                       Respond([@ EXCEPT !.generated = Generated(out),
                                         !.thrown = out.error],
                               Resp(500, "json", Undefined, ErrorMessage(out.error)))]
          /\ heap' = Collect(heap, sessionStore, req')
          /\ UNCHANGED <<sessionStore, turns>>
     ELSE LET sid == req[r].body.sessionId
              ref == req[r].sessionHistory
              answer == ManualAnswer(out.text)
              pushed == heap[ref]
                        \o <<ChatMessage("user", req[r].body.message, turns[sid] + 1),
                             ChatMessage("assistant", answer, turns[sid] + 2)>>
              kept == IF Len(pushed) > SessionCap
                      THEN FreshRef(sessionStore, req)
                      ELSE ref
              heap1 == [heap EXCEPT ![ref] = pushed]
              heap2 == [heap1 EXCEPT ![kept] = SliceLast(pushed, SessionCap)]
          IN /\ sessionStore' = [sessionStore EXCEPT ![sid] = kept]
             /\ req' = [req EXCEPT ![r] =
                          Respond([@ EXCEPT !.generated = Generated(out)],
                                  Resp(200, "json", answer, ""))]
             /\ heap' = Collect(heap2, sessionStore', req')
             /\ turns' = [turns EXCEPT ![sid] = @ + 2]
  /\ UNCHANGED <<config, serverHeld, overlaps>>

-----------------------------------------------------------------------------
(* createPortfolioHandler (Proxied) *)

\* the keys of MEMORY_ROUTER_URLS
RouterProviders == {"anthropic", "openai", "groq", "openrouter", "google"}

\* the endpoint of a provider, and the prefix that routes a call through the
\* memory service
ProviderURL(provider) ==
  CASE provider = "anthropic" -> "https://api.anthropic.com/v1"
    [] provider = "openai" -> "https://api.openai.com/v1"
    [] provider = "groq" -> "https://api.groq.com/openai/v1"
    [] provider = "openrouter" -> "https://openrouter.ai/api/v1"
    [] provider = "google" -> "https://generativelanguage.googleapis.com/v1beta"
    [] OTHER -> "undefined"

MemoryRouter == "https://api.supermemory.ai/v3/"

\* MEMORY_ROUTER_URLS[config.llmProvider]: a URL is the sequence of its parts
RouterBaseURL(provider) == <<MemoryRouter, ProviderURL(provider)>>

\* the headers getProviderModel gives to the provider client
PortfolioHeaders(c) ==
  [apiKey |-> c.supermemoryApiKey, userId |-> "config.supermemoryContainer"]

\* the validation at construction: the handler exists only when nothing throws
PortfolioConstructs(c) ==
  /\ c.llmApiKey # ""
  /\ c.supermemoryApiKey # ""
  /\ c.supermemoryContainer # ""
  /\ c.llmProvider \in RouterProviders

\* GET of the Proxied handler: a status report
PortfolioGet ==
  /\ config.variant = "proxied"
  /\ PortfolioConstructs(config)
  /\ UNCHANGED <<config, sessionStore, heap, req, turns, serverHeld, overlaps>>

\* error.message?.includes('container')
MentionsContainer(msg) == msg = "container not found upstream"

InvalidApiKey == "Invalid API key. Please check your LLM or Supermemory API key."
ModelNotFound == "Model not found. Please check your model name."
ContainerNotFound == "Supermemory container not found. Please check your container name."
EmptyDiagnostic == "I apologize, but I'm having trouble generating a response."

\* error.status || 500
ErrorStatus(e) == IF e.status # 0 THEN e.status ELSE 500

\* the catch block of createPortfolioHandler.POST
PortfolioCatch(e) ==
  Resp(ErrorStatus(e), "json", Undefined,
       IF e.status = 401 THEN InvalidApiKey
       ELSE IF e.status = 404 THEN ModelNotFound
       ELSE IF MentionsContainer(e.message) THEN ContainerNotFound
       ELSE ErrorMessage(e))

\* history.filter(msg => msg.content && msg.content.trim().length > 0)
\*        .map(msg => ({ role: msg.role, content: msg.content.trim() }))
RECURSIVE PortfolioHistory(_)
PortfolioHistory(h) ==
  IF h = <<>> THEN <<>>
  ELSE (IF Truthy(Head(h).content) /\ Len(Trim(Head(h).content)) > 0
        THEN <<[role |-> Head(h).role, content |-> Trim(Head(h).content)]>>
        ELSE <<>>)
       \o PortfolioHistory(Tail(h))

PortfolioMessages(body) ==
  PortfolioHistory(body.history) \o <<[role |-> "user", content |-> Trim(body.message)]>>

\* from the call to the await of streamText
PortfolioPost(r, body) ==
  /\ config.variant = "proxied"
  /\ PortfolioConstructs(config)
  /\ req[r].pc \in {"idle", "done"}
  /\ LET start == [IdleReq EXCEPT !.body = body]
     IN req' = [req EXCEPT ![r] =
          IF ~body.json THEN Respond(start, PortfolioCatch(JsonSyntaxError))
          ELSE IF body.history = NullHistory
          THEN Respond(start, PortfolioCatch(NullLengthError))
          ELSE IF ~Truthy(body.message) \/ body.sessionId = NoSessionId
          THEN Respond(start, Resp(400, "json", Undefined, "Missing message or sessionId"))
          ELSE IF Len(Trim(body.message)) = 0
          THEN Respond(start, Resp(400, "json", Undefined, "Message cannot be empty"))
          ELSE [start EXCEPT !.pc = "generating", !.sent = PortfolioMessages(body),
                             !.nGenerate = 1]]
  /\ UNCHANGED <<config, sessionStore, heap, turns, serverHeld, overlaps>>

\* streamText (and, buffered, result.text) settles
PortfolioGenerateReturn(r, out) ==
  /\ config.variant = "proxied"
  /\ req[r].pc = "generating"
  /\ LET rq == [req[r] EXCEPT !.generated = Generated(out), !.thrown = out.error]
     IN req' = [req EXCEPT ![r] =
          IF out.throws THEN Respond(rq, PortfolioCatch(out.error))
          ELSE IF config.streaming THEN Respond(rq, Resp(200, "stream", out.text, ""))
          ELSE IF ~Truthy(out.text) \/ Len(Trim(out.text)) = 0
          THEN Respond(rq, Resp(200, "json", <<EmptyDiagnostic>>, "Empty response from LLM"))
          ELSE Respond(rq, Resp(200, "json", out.text, ""))]
  /\ UNCHANGED <<config, sessionStore, heap, turns, serverHeld, overlaps>>

-----------------------------------------------------------------------------
(* createBackendHandler (Direct, read-only) *)

\* the validation at construction
\* a construction that does not look at the container
BackendConstructsAnyContainer(c) ==
  /\ c.llmApiKey # ""
  /\ c.supermemoryApiKey # ""

BackendConstructs(c) ==
  /\ c.llmApiKey # ""
  /\ c.supermemoryApiKey # ""
  /\ c.supermemoryContainer # ""

\* the cases of the switch in getProviderModel; any other selector throws
BackendProviders == {"anthropic", "openai", "groq", "openrouter", "google"}

\* a client that reaches the provider through the memory service
BackendBaseURLRouted(provider) == <<MemoryRouter, ProviderURL(provider)>>

\* the endpoint of the client getProviderModel builds: the provider's own, given
\* or defaulted by the client library
BackendBaseURL(provider) == <<ProviderURL(provider)>>

\* GET of the Direct handler: a status report
BackendGet ==
  /\ config.variant = "direct"
  /\ BackendConstructs(config)
  /\ UNCHANGED <<config, sessionStore, heap, req, turns, serverHeld, overlaps>>

UnsupportedProvider == Err(0, "Unsupported provider")
NullFilterError == Err(0, "Cannot read properties of null")

\* the catch block of createBackendHandler.POST
BackendCatch(e) ==
  Resp(ErrorStatus(e), "json", Undefined,
       IF e.status = 401 THEN InvalidApiKey ELSE ErrorMessage(e))

\* a filter that lets every role of the message format through
HistoryRolesWithTool == {"user", "assistant", "system", "tool"}

HistoryRoles == {"user", "assistant", "system"}

\* history.filter(...).map(...): processedHistory
RECURSIVE ProcessedHistory(_)
ProcessedHistory(h) ==
  IF h = <<>> THEN <<>>
  ELSE (IF /\ Truthy(Head(h).content)
           /\ Head(h).role \in HistoryRoles
           /\ Len(Trim(Head(h).content)) > 0
        THEN <<[role |-> Head(h).role, content |-> Trim(Head(h).content)]>>
        ELSE <<>>)
       \o ProcessedHistory(Tail(h))

\* messages.find(m => m.role === 'system'): <<>> when there is none
RECURSIVE FindSystem(_)
FindSystem(ms) ==
  IF ms = <<>> THEN <<>>
  ELSE IF Head(ms).role = "system" THEN <<Head(ms)>> ELSE FindSystem(Tail(ms))

\* messages.filter(m => m.role === 'user').slice(-1)[0]: <<>> when there is none
RECURSIVE LastUser(_)
LastUser(ms) ==
  IF ms = <<>> THEN <<>>
  ELSE IF ms[Len(ms)].role = "user" THEN <<ms[Len(ms)]>>
  ELSE LastUser(SubSeq(ms, 1, Len(ms) - 1))

\* a handler without the openrouter branch: the message list is sent as built
SimplifiedKeepsHistory(ms) == ms

\* the stateless message list of the openrouter branch
Simplified(ms) ==
  (IF FindSystem(ms) # <<>> /\ Len(Trim(FindSystem(ms)[1].content)) > 0
   THEN <<[role |-> "system", content |-> Trim(FindSystem(ms)[1].content)]>>
   ELSE <<>>)
  \o (IF LastUser(ms) # <<>> /\ Len(Trim(LastUser(ms)[1].content)) > 0
      THEN <<[role |-> "user", content |-> Trim(LastUser(ms)[1].content)]>>
      ELSE <<>>)

BackendMessages(c, body, context) ==
  LET messages == ProcessedHistory(body.history)
                  \o <<[role |-> "user", content |-> UserTurn(context, body.message)]>>
  IN IF c.llmProvider = "openrouter" THEN Simplified(messages) ELSE messages

\* from the call to the await of the search call
BackendPost(r, body) ==
  /\ config.variant = "direct"
  /\ BackendConstructs(config)
  /\ req[r].pc \in {"idle", "done"}
  /\ LET start == [IdleReq EXCEPT !.body = body]
     IN req' = [req EXCEPT ![r] =
          IF ~body.json THEN Respond(start, BackendCatch(JsonSyntaxError))
          ELSE IF ~Truthy(body.message) \/ body.sessionId = NoSessionId
          THEN Respond(start, Resp(400, "json", Undefined, "Missing message or sessionId"))
          ELSE IF Len(Trim(body.message)) = 0
          THEN Respond(start, Resp(400, "json", Undefined, "Message cannot be empty"))
          ELSE [start EXCEPT !.pc = "searching", !.nSearch = 1]]
  /\ UNCHANGED <<config, sessionStore, heap, turns, serverHeld, overlaps>>

\* the search call settles: context, messages, provider model, streamText
BackendSearchReturn(r, out) ==
  /\ config.variant = "direct"
  /\ req[r].pc = "searching"
  /\ req' = [req EXCEPT ![r] =
       IF out.throws
       THEN Respond([@ EXCEPT !.searchThrew = TRUE, !.thrown = out.error],
                    BackendCatch(out.error))
       ELSE IF req[r].body.history = NullHistory
       THEN Respond(@, BackendCatch(NullFilterError))
       ELSE IF config.llmProvider \notin BackendProviders
       THEN Respond(@, BackendCatch(UnsupportedProvider))
       ELSE [@ EXCEPT !.pc = "generating", !.documents = Documents(out),
                      !.sent = BackendMessages(config, req[r].body, Context(Documents(out))),
                      !.nGenerate = @ + 1]]
  /\ UNCHANGED <<config, sessionStore, heap, turns, serverHeld, overlaps>>

\* streamText (and, buffered, result.text) settles
\* a handler that calls the model once more when the first call throws
BackendGenerateReturnRetries(r, out) ==
  /\ config.variant = "direct"
  /\ req[r].pc = "generating"
  /\ LET rq == [req[r] EXCEPT !.generated = Generated(out), !.thrown = out.error]
     IN req' = [req EXCEPT ![r] =
          IF out.throws /\ req[r].nGenerate < 2 THEN [@ EXCEPT !.nGenerate = @ + 1]
          ELSE IF out.throws THEN Respond(rq, BackendCatch(out.error))
          ELSE IF config.streaming THEN Respond(rq, Resp(200, "stream", out.text, ""))
          ELSE Respond(rq, Resp(200, "json", out.text, ""))]
  /\ UNCHANGED <<config, sessionStore, heap, turns, serverHeld, overlaps>>

BackendGenerateReturn(r, out) ==
  /\ config.variant = "direct"
  /\ req[r].pc = "generating"
  /\ LET rq == [req[r] EXCEPT !.generated = Generated(out), !.thrown = out.error]
     IN req' = [req EXCEPT ![r] =
          IF out.throws THEN Respond(rq, BackendCatch(out.error))
          ELSE IF config.streaming THEN Respond(rq, Resp(200, "stream", out.text, ""))
          ELSE Respond(rq, Resp(200, "json", out.text, ""))]
  /\ UNCHANGED <<config, sessionStore, heap, turns, serverHeld, overlaps>>

-----------------------------------------------------------------------------
(* AutoChat: the widget *)

Thinking == "thinking-indicator"
Apology == "Sorry, something went wrong. Please try again."
FailedBanner == "Failed to get response. Please try again."
NoResponseAvailable == "No response available."

\* the bytes of the model: "b" is a one-byte character; "L" and "T" are the lead
\* and the trail byte of the two-byte character "LT"
Lead == "L"
Trail == "T"
TwoByteChar == "LT"
Replacement == "U+FFFD"

\* decode(value) without { stream: true }: every chunk is decoded on its own, and
\* a character split across two reads is lost
RECURSIVE DecodeAlone(_, _)
DecodeAlone(pending, bytes) ==
  IF bytes = <<>> THEN [text |-> <<>>, pending |-> <<>>]
  ELSE LET b == Head(bytes)
           rest == Tail(bytes)
       IN IF b = Lead /\ rest # <<>> /\ Head(rest) = Trail
          THEN [DecodeAlone(<<>>, Tail(rest)) EXCEPT !.text = <<TwoByteChar>> \o @]
          ELSE IF b \in {Lead, Trail}
          THEN [DecodeAlone(<<>>, rest) EXCEPT !.text = <<Replacement>> \o @]
          ELSE [DecodeAlone(<<>>, rest) EXCEPT !.text = <<b>> \o @]

\* TextDecoder.decode(value, { stream: true }) with `pending` the bytes the
\* decoder holds back; the result is the text decoded and the bytes held back
RECURSIVE Decode(_, _)
Decode(pending, bytes) ==
  IF bytes = <<>> THEN [text |-> <<>>, pending |-> pending]
  ELSE LET b == Head(bytes)
           rest == Tail(bytes)
       IN IF pending # <<>>
          THEN IF b = Trail
               THEN [Decode(<<>>, rest) EXCEPT !.text = <<TwoByteChar>> \o @]
               ELSE [Decode(<<>>, bytes) EXCEPT !.text = <<Replacement>> \o @]
          ELSE IF b = Lead THEN Decode(<<Lead>>, rest)
          ELSE IF b = Trail
          THEN [Decode(<<>>, rest) EXCEPT !.text = <<Replacement>> \o @]
          ELSE [Decode(<<>>, rest) EXCEPT !.text = <<b>> \o @]

\* the state of a component that is not mounted, and of one just mounted
Unmounted ==
  [mounted |-> FALSE, sessionId |-> NoSessionId, messages |-> <<>>, input |-> <<>>,
   isExpanded |-> FALSE, isSending |-> FALSE, error |-> "",
   pc |-> "idle", streamedContent |-> <<>>, chunkCount |-> 0, pending |-> <<>>]

WidgetInit ==
  /\ localStorage = ""
  /\ widget = Unmounted
  /\ net = [inFlight |-> 0, fetches |-> 0, reads |-> 0, request |-> NoBody,
            received |-> <<>>, last |-> "none"]

\* a session effect that does not look into local storage
MountAlwaysGenerates(newId) ==
  /\ ~widget.mounted
  /\ localStorage' = newId
  /\ widget' = [Unmounted EXCEPT !.mounted = TRUE, !.sessionId = newId]
  /\ UNCHANGED net

\* the session effect, run once when the component mounts
Mount(newId) ==
  /\ ~widget.mounted
  /\ IF localStorage # ""
     THEN /\ widget' = [Unmounted EXCEPT !.mounted = TRUE, !.sessionId = localStorage]
          /\ UNCHANGED localStorage
     ELSE /\ localStorage' = newId
          /\ widget' = [Unmounted EXCEPT !.mounted = TRUE, !.sessionId = newId]
  /\ UNCHANGED net

\* the component is removed while no send is running; its state is lost
Unmount ==
  /\ widget.mounted
  /\ widget.pc = "idle"
  /\ widget' = Unmounted
  /\ UNCHANGED <<localStorage, net>>

\* onChange of the input, which is disabled while sending or without a session
Type(text) ==
  /\ widget.mounted
  /\ ~widget.isSending
  /\ widget.sessionId # NoSessionId
  /\ widget' = [widget EXCEPT !.input = text]
  /\ UNCHANGED <<localStorage, net>>

\* if (!input.trim() || !sessionId || isSending) return
SendGuard(w) == Len(Trim(w.input)) > 0 /\ w.sessionId # NoSessionId /\ ~w.isSending

\* the catch block of sendMessage followed by its finally block
CatchFinally(w) ==
  [w EXCEPT !.error = FailedBanner,
            !.messages = @ \o <<ChatMessage("assistant", <<Apology>>, 0)>>,
            !.isSending = FALSE, !.pc = "idle"]

\* a finally block that forgets setIsSending(false)
FinallyStaysSending(w) == [w EXCEPT !.pc = "idle"]

\* the finally block of sendMessage
Finally(w) == [w EXCEPT !.isSending = FALSE, !.pc = "idle"]

\* an update that pushes the streamed text as a new entry
ReplaceLastAppends(ms, content) == ms \o <<ChatMessage("assistant", content, 0)>>

\* newMessages[newMessages.length - 1] = { role: 'assistant', content, ... }
\* (on an empty array the assignment adds no element)
ReplaceLast(ms, content) ==
  IF ms = <<>> THEN ms ELSE [ms EXCEPT ![Len(ms)] = ChatMessage("assistant", content, 0)]

\* sendMessage without setIsSending(true)
SendStartNotSending(w) ==
  [w EXCEPT !.input = <<>>, !.error = "", !.isExpanded = TRUE,
            !.messages = @ \o <<ChatMessage("user", Trim(w.input), 0),
                                ChatMessage("assistant", <<Thinking>>, 0)>>,
            !.pc = "fetching", !.streamedContent = <<>>, !.chunkCount = 0,
            !.pending = <<>>]

\* the state updates of sendMessage before the fetch: the input is cleared, the
\* widget is Sending, the user turn and the thinking placeholder are appended
SendStart(w) ==
  [w EXCEPT !.input = <<>>, !.isSending = TRUE, !.error = "", !.isExpanded = TRUE,
            !.messages = @ \o <<ChatMessage("user", Trim(w.input), 0),
                                ChatMessage("assistant", <<Thinking>>, 0)>>,
            !.pc = "fetching", !.streamedContent = <<>>, !.chunkCount = 0,
            !.pending = <<>>]

\* sendMessage up to the await of fetch; a call the guard refuses does nothing
Submit ==
  /\ widget.mounted
  /\ IF SendGuard(widget)
     THEN LET message == Trim(widget.input)
              userEntry == ChatMessage("user", message, 0)
          IN /\ widget' = SendStart(widget)
             /\ net' = [net EXCEPT
                          !.inFlight = @ + 1, !.fetches = @ + 1, !.received = <<>>,
                          !.last = "none",
                          !.request = Body(TRUE, message, widget.sessionId,
                                           widget.messages \o <<userEntry>>)]
     ELSE UNCHANGED <<widget, net>>
  /\ UNCHANGED localStorage

\* contentType?.includes('text/event-stream') || contentType?.includes('text/plain')
IsStreamType(contentType) == contentType \in {"text/event-stream", "text/plain"}

\* fetch settles: rejection, a non-OK status, a stream or a JSON body
FetchSettles(out) ==
  /\ widget.pc = "fetching"
  /\ widget' =
       IF out.rejects \/ ~out.ok THEN CatchFinally(widget)
       ELSE IF IsStreamType(out.contentType)
       THEN IF out.hasBody THEN [widget EXCEPT !.pc = "reading"] ELSE Finally(widget)
       ELSE [widget EXCEPT !.pc = "parsing"]
  /\ net' = [net EXCEPT
               !.inFlight = @ - 1,
               !.last = IF out.rejects \/ ~out.ok THEN "failed"
                        ELSE IF IsStreamType(out.contentType) /\ ~out.hasBody
                        THEN "noReader" ELSE @]
  /\ UNCHANGED localStorage

\* response.json() settles
JsonSettles(out) ==
  /\ widget.pc = "parsing"
  /\ widget' =
       IF out.rejects THEN CatchFinally(widget)
       ELSE Finally([widget EXCEPT !.messages = @ \o
              <<ChatMessage("assistant",
                            IF out.answer # Undefined /\ out.answer # Null
                            THEN out.answer ELSE <<NoResponseAvailable>>, 0)>>])
  /\ net' = [net EXCEPT !.last = IF out.rejects THEN "failed" ELSE "buffered"]
  /\ UNCHANGED localStorage

\* the final update after the read loop, then the finally block
StreamEnd(w) ==
  Finally(IF w.streamedContent # <<>>
          THEN [w EXCEPT !.messages = ReplaceLast(@, w.streamedContent)]
          ELSE w)

\* reader.read() resolves with a chunk
StreamRead(bytes) ==
  /\ widget.pc = "reading"
  /\ LET d == Decode(widget.pending, bytes)
         content == widget.streamedContent \o d.text
     IN widget' = [widget EXCEPT !.chunkCount = @ + 1, !.pending = d.pending,
                                 !.streamedContent = content,
                                 !.messages = ReplaceLast(@, content)]
  /\ net' = [net EXCEPT !.received = @ \o bytes, !.reads = @ + 1]
  /\ UNCHANGED localStorage

\* reader.read() resolves with done
StreamDone ==
  /\ widget.pc = "reading"
  /\ widget' = StreamEnd(widget)
  /\ net' = [net EXCEPT !.last = "streamed"]
  /\ UNCHANGED localStorage

\* reader.read() rejects: the inner catch logs it and the loop is left
StreamError ==
  /\ widget.pc = "reading"
  /\ widget' = StreamEnd(widget)
  /\ net' = [net EXCEPT !.last = "streamError"]
  /\ UNCHANGED localStorage

-----------------------------------------------------------------------------
(* Inputs *)

Config(variant, llmProvider, streaming) ==
  [variant |-> variant, llmProvider |-> llmProvider, streaming |-> streaming,
   llmApiKey |-> "llm-key", supermemoryApiKey |-> "sm-key",
   supermemoryContainer |-> "portfolio"]

SearchOk(results) ==
  [throws |-> FALSE, error |-> Err(0, ""), isArray |-> TRUE, results |-> results]
SearchMalformed ==
  [throws |-> FALSE, error |-> Err(0, ""), isArray |-> FALSE, results |-> Undefined]
SearchThrows(e) == [throws |-> TRUE, error |-> e, isArray |-> FALSE, results |-> <<>>]
GenOk(text) == [throws |-> FALSE, error |-> Err(0, ""), text |-> text]
GenThrows(e) == [throws |-> TRUE, error |-> e, text |-> Undefined]

ServerInit ==
  /\ sessionStore = [s \in SessionIds |-> 0]
  /\ heap = [x \in Refs |-> <<>>]
  /\ req = [r \in Slots |-> IdleReq]
  /\ turns = [s \in SessionIds |-> 0]
  /\ serverHeld = [s \in SessionIds |-> TRUE]
  /\ overlaps = 0

-----------------------------------------------------------------------------
(* SpecCap: the Manual handler under long runs of well-formed requests *)

CapBodies ==
  {Body(TRUE, <<"a">>, s, h) :
     s \in {"s1"}, h \in {<<>>, <<ChatMessage("user", <<"a">>, 0)>>}}

CapSearchOutcomes == {SearchOk(<<>>)}
CapGenOutcomes == {GenOk(<<"b">>), GenThrows(Err(0, "overloaded"))}

InitCap ==
  /\ config = Config("manual", "anthropic", FALSE)
  /\ ServerInit
  /\ WidgetInit

CapPost(r, body) ==
  /\ turns[body.sessionId] < MaxTurns
  /\ ManualPost(r, body)
  /\ overlaps' <= MaxOverlaps
  /\ UNCHANGED widgetVars

CapSearchReturn(r, out) == ManualSearchReturn(r, out) /\ UNCHANGED widgetVars

CapGenerateReturn(r, out) == ManualGenerateReturn(r, out) /\ UNCHANGED widgetVars

NextCap ==
  \/ \E r \in Slots, body \in CapBodies : CapPost(r, body)
  \/ \E r \in Slots, out \in CapSearchOutcomes : CapSearchReturn(r, out)
  \/ \E r \in Slots, out \in CapGenOutcomes : CapGenerateReturn(r, out)

SpecCap == InitCap /\ [][NextCap]_vars

-----------------------------------------------------------------------------
(* Spec: one handler, constructed from any configuration, serving arbitrary
   request bodies one at a time, with collaborators that return or throw *)

\* turns a session accepts under Spec
MaxShortTurns == 3

\* configurations that lack a required key, and one with a selector that is not
\* a provider
BadConfigs ==
  UNION {{[Config(v, "anthropic", FALSE) EXCEPT !.llmApiKey = ""],
          [Config(v, "anthropic", FALSE) EXCEPT !.supermemoryApiKey = ""],
          [Config(v, "anthropic", FALSE) EXCEPT !.supermemoryContainer = ""],
          Config(v, "mistral", FALSE)} : v \in {"proxied", "direct"}}

Configs ==
  {Config("manual", "anthropic", FALSE)}
  \cup {Config(v, p, st) : v \in {"proxied", "direct"},
                           p \in {"anthropic", "openrouter"}, st \in BOOLEAN}
  \cup BadConfigs

Texts == {Undefined, <<>>, <<WS>>, <<"a">>, <<WS, "a", WS>>}

Histories ==
  {<<>>, NullHistory,
   <<ChatMessage("user", <<"a", WS>>, 0)>>,
   <<ChatMessage("system", <<"s">>, 0), ChatMessage("assistant", <<WS>>, 0)>>,
   <<ChatMessage("tool", <<"t">>, 0), ChatMessage("user", <<"a">>, 0)>>,
   <<ChatMessage("assistant", <<WS, "b">>, 0), ChatMessage("user", <<>>, 0),
     ChatMessage("user", <<"a">>, 0)>>}

\* a body that is no JSON, and the JSON bodies
Bodies ==
  {NoBody}
  \cup {Body(TRUE, m, s, h) : m \in Texts, s \in {NoSessionId, "s1"}, h \in Histories}

Errors == {Err(0, ""), Err(0, "upstream failure"), Err(401, "unauthorized"),
           Err(404, "not found"), Err(0, "container not found upstream")}

SearchOutcomes ==
  {SearchThrows(e) : e \in Errors}
  \cup {SearchMalformed, SearchOk(<<>>),
        SearchOk(<<Doc(Undefined, Undefined, Undefined, Undefined, <<>>)>>),
        SearchOk(<<Doc(<<"d">>, <<>>, Undefined, <<"m">>, <<Undefined, <<"c">>>>)>>),
        SearchOk(<<Doc(<<>>, Undefined, <<>>, <<"m">>, <<Undefined, <<>>>>)>>)}

GenOutcomes ==
  {GenThrows(e) : e \in Errors}
  \cup {GenOk(t) : t \in {Undefined, <<>>, <<WS>>, <<"b">>}}

Served == {1}

Init ==
  /\ config \in Configs
  /\ ServerInit
  /\ WidgetInit

ServerNext ==
  \/ \E r \in Served, body \in Bodies :
       /\ body.sessionId # NoSessionId => turns[body.sessionId] < MaxShortTurns
       /\ ManualPost(r, body)
  \/ \E r \in Served, out \in SearchOutcomes : ManualSearchReturn(r, out)
  \/ \E r \in Served, out \in GenOutcomes : ManualGenerateReturn(r, out)
  \/ \E r \in Served, body \in Bodies : PortfolioPost(r, body)
  \/ \E r \in Served, out \in GenOutcomes : PortfolioGenerateReturn(r, out)
  \/ \E r \in Served, body \in Bodies : BackendPost(r, body)
  \/ \E r \in Served, out \in SearchOutcomes : BackendSearchReturn(r, out)
  \/ \E r \in Served, out \in GenOutcomes : BackendGenerateReturn(r, out)
  \/ PortfolioGet
  \/ BackendGet

Next == ServerNext /\ UNCHANGED widgetVars

Spec == Init /\ [][Next]_vars

-----------------------------------------------------------------------------
(* SpecWidget: one AutoChat instance against a server that answers anything *)

\* sends a behaviour issues
MaxSends == 2

\* reads of a behaviour that yield a chunk
MaxChunks == 3

NewIds == {"u1", "u2"}

Inputs == {<<>>, <<WS>>, <<"a", WS>>}

FetchOutcomes ==
  {[rejects |-> TRUE, ok |-> FALSE, contentType |-> "none", hasBody |-> FALSE],
   [rejects |-> FALSE, ok |-> FALSE, contentType |-> "application/json", hasBody |-> TRUE]}
  \cup {[rejects |-> FALSE, ok |-> TRUE, contentType |-> ct, hasBody |-> hb] :
          ct \in {"application/json", "text/plain", "text/event-stream", "none"},
          hb \in BOOLEAN}

JsonOutcomes ==
  {[rejects |-> TRUE, answer |-> Undefined]}
  \cup {[rejects |-> FALSE, answer |-> a] :
          a \in {Undefined, <<>>, <<"b">>, <<EmptyDiagnostic>>}}

Chunks == {<<"b">>, <<Lead>>, <<Trail>>, <<"b", Lead>>}

InitWidget ==
  /\ config = Config("direct", "anthropic", TRUE)
  /\ ServerInit
  /\ WidgetInit

WidgetNext ==
  \/ \E id \in NewIds : Mount(id)
  \/ Unmount
  \/ \E text \in Inputs : Type(text)
  \/ net.fetches < MaxSends /\ Submit
  \/ \E out \in FetchOutcomes : FetchSettles(out)
  \/ \E out \in JsonOutcomes : JsonSettles(out)
  \/ \E bytes \in Chunks : net.reads < MaxChunks /\ StreamRead(bytes)
  \/ StreamDone
  \/ StreamError

NextWidget == WidgetNext /\ UNCHANGED serverVars

SpecWidget == InitWidget /\ [][NextWidget]_vars

\* the network settles: a fetch resolves or rejects, a body is parsed or not, a
\* stream ends or fails
Settles ==
  /\ \/ \E out \in FetchOutcomes : FetchSettles(out)
     \/ \E out \in JsonOutcomes : JsonSettles(out)
     \/ StreamDone
     \/ StreamError
  /\ UNCHANGED serverVars

SpecWidgetFair == SpecWidget /\ WF_vars(Settles)

-----------------------------------------------------------------------------
(* Properties *)

Last(s) == s[Len(s)]

IsPrefix(a, b) == Len(a) <= Len(b) /\ SubSeq(b, 1, Len(a)) = a

\* the stored turns of session s are the SessionCap most recent turns appended to
\* it, in the order they were appended
MostRecent(s) ==
  /\ Len(Stored(s)) = SessionCap
  /\ \A i \in 1 .. SessionCap : Stored(s)[i].timestamp = turns[s] - SessionCap + i

\* C1 as stated: a session never holds more than 20 turns, and once more than 20
\* turns were appended to it, it holds exactly the 20 most recent, in order
C1_AsClaimed ==
  \A s \in SessionIds :
    /\ Len(Stored(s)) <= SessionCap
    /\ turns[s] > SessionCap => MostRecent(s)

\* C1: a session never holds more than 20 turns; a session fed only by requests
\* that carry no client history and do not overlap another request holds, once
\* more than 20 turns were appended, exactly the 20 most recent, in order
C1_SessionCap ==
  \A s \in SessionIds :
    /\ Len(Stored(s)) <= SessionCap
    /\ (serverHeld[s] /\ turns[s] > SessionCap) => MostRecent(s)

C1_Witness ==
  \E s \in SessionIds : serverHeld[s] /\ turns[s] > SessionCap /\ MostRecent(s)

\* C2 as stated: a request whose document search threw still reaches generation
\* (Manual and Direct), with the fallback instruction as its context
C2_AsClaimed ==
  \A r \in Slots :
    req[r].searchThrew =>
      /\ req[r].nGenerate >= 1
      /\ req[r].pc = "done" => req[r].generated # "none"

\* a body of JSON that lacks message or sessionId
LacksField(body) ==
  body.json /\ (~Truthy(body.message) \/ body.sessionId = NoSessionId)

\* C3 as stated: a POST whose body lacks message or sessionId is answered 400
\* with an error field, before any search or generation call, by every handler
C3_AsClaimed ==
  \A r \in Slots :
    (req[r].pc # "idle" /\ LacksField(req[r].body)) =>
      /\ req[r].pc = "done"
      /\ req[r].resp.status = 400
      /\ req[r].resp.error # ""
      /\ req[r].nSearch = 0
      /\ req[r].nGenerate = 0

\* a body of JSON with a sessionId whose message is not empty and trims to empty
WhitespaceOnly(body) ==
  /\ body.json
  /\ body.sessionId # NoSessionId
  /\ Truthy(body.message)
  /\ Len(Trim(body.message)) = 0

\* C4 as stated: a message of whitespace only is answered 400 by every handler,
\* before any search or generation call
C4_AsClaimed ==
  \A r \in Slots :
    (req[r].pc # "idle" /\ WhitespaceOnly(req[r].body)) =>
      /\ req[r].pc = "done"
      /\ req[r].resp.status = 400
      /\ req[r].nSearch = 0
      /\ req[r].nGenerate = 0

\* the handler answers with one JSON body, not with a stream
Buffered == config.variant = "manual" \/ ~config.streaming

\* C5 as stated: in buffered mode a generation that yields no text is answered
\* 200 with a non-empty diagnostic answer and the error field set (Manual,
\* Proxied and Direct)
C5_AsClaimed ==
  \A r \in Slots :
    (Buffered /\ req[r].pc = "done" /\ req[r].generated = "empty") =>
      /\ req[r].resp.status = 200
      /\ Truthy(req[r].resp.answer)
      /\ Len(Trim(req[r].resp.answer)) > 0
      /\ req[r].resp.error # ""

\* the widget is Idle after a send
Settled == widget.mounted /\ widget.pc = "idle" /\ widget.messages # <<>>

\* C6 as stated: a stream that ends without a chunk does not finish silently; the
\* widget shows an error or an assistant entry that says so
C6_AsClaimed ==
  (Settled /\ net.last = "streamed" /\ widget.chunkCount = 0) =>
    \/ widget.error # ""
    \/ Last(widget.messages).content \notin {<<Thinking>>, <<>>}

\* the widget renders a stream of which it has read at least one chunk
Streaming(w, n) ==
  /\ w.mounted
  /\ w.chunkCount >= 1
  /\ w.pc = "reading" \/ (w.pc = "idle" /\ n.last \in {"streamed", "streamError"})

\* C7: after every read, and when the stream has settled, the trailing assistant
\* entry is the decoded text of all the chunks read so far, in the order they
\* arrived; what was rendered before is a prefix of it, and the entries before the
\* trailing one are not touched
C7_Accumulation ==
  [][Streaming(widget', net') =>
       /\ Last(widget'.messages).role = "assistant"
       /\ Last(widget'.messages).content = Decode(<<>>, net'.received).text
       /\ Len(widget'.messages) = Len(widget.messages)
       /\ \A i \in 1 .. Len(widget.messages) - 1 :
            widget'.messages[i] = widget.messages[i]
       /\ Streaming(widget, net) =>
            IsPrefix(Last(widget.messages).content, Last(widget'.messages).content)
    ]_vars

C7_Witness ==
  /\ widget.pc = "reading"
  /\ widget.chunkCount = 2
  /\ net.received = <<"b", Lead, Trail>>
  /\ Last(widget.messages).content = <<"b", TwoByteChar>>

\* C8: when the network settles (the fetch resolves or rejects, the body is parsed
\* or not, the stream ends or fails), a widget that is Sending is Idle again later
C8_BackToIdle ==
  widget.isSending ~> (~widget.isSending /\ widget.pc = "idle")

C8_Witness ==
  /\ Settled
  /\ ~widget.isSending
  /\ net.last = "streamError"
  /\ net.fetches = MaxSends

\* C9: at most one request of the widget is in flight, and a submit while a send
\* is running (its request in flight or its response being read) issues no
\* request and changes nothing
C9_SingleFlight ==
  [][/\ net'.inFlight <= 1
     /\ net'.inFlight = 1 => widget'.isSending
     /\ (widget.pc # "idle" /\ Submit) => UNCHANGED vars
    ]_vars

C9_Witness ==
  /\ widget.isSending
  /\ net.inFlight = 1
  /\ net.fetches = 2

\* C10 as stated: after a network, parse or stream failure the error banner is
\* set and the transcript ends with the user turn followed by the apology, the
\* placeholder being replaced
C10_AsClaimed ==
  (Settled /\ net.last \in {"failed", "streamError"}) =>
    /\ widget.error = FailedBanner
    /\ Len(widget.messages) >= 2
    /\ Last(widget.messages).content = <<Apology>>
    /\ widget.messages[Len(widget.messages) - 1].role = "user"

\* C11 as stated: after a buffered (JSON) response has settled, the transcript has
\* grown by exactly two entries since before the send, the user turn and one
\* assistant entry with the answer, and holds no thinking placeholder
C11_AsClaimed ==
  (Settled /\ net.last = "buffered") =>
    /\ Len(widget.messages) = Len(net.request.history) + 1
    /\ widget.messages[Len(widget.messages) - 1].role = "user"
    /\ Last(widget.messages).role = "assistant"
    /\ \A i \in 1 .. Len(widget.messages) : widget.messages[i].content # <<Thinking>>

\* the Direct handler with the openrouter selector awaits the generation call
OpenRouterCall(r) ==
  /\ config.variant = "direct"
  /\ config.llmProvider = "openrouter"
  /\ req[r].pc = "generating"

\* C12: on the openrouter path of the Direct handler the message list passed to
\* generation has at most two entries, a leading system entry if any and no
\* assistant entry, and ends with the user entry whose content is the trimmed
\* current turn: the context prompt followed by the question
C12_OpenRouterList ==
  \A r \in Slots :
    OpenRouterCall(r) =>
      LET sent == req[r].sent
      IN /\ Len(sent) \in {1, 2}
         /\ \A i \in 1 .. Len(sent) : sent[i].role # "assistant"
         /\ Len(sent) = 2 => sent[1].role = "system"
         /\ Last(sent) =
              [role |-> "user",
               content |-> Trim(UserTurn(Context(req[r].documents),
                                         req[r].body.message))]

C12_Witness ==
  \E r \in Slots :
    /\ OpenRouterCall(r)
    /\ Len(req[r].body.history) = 2
    /\ req[r].body.history[2].role = "user"
    /\ req[r].body.message = <<WS, "a", WS>>
    /\ Len(req[r].sent) = 1
    /\ req[r].documents # <<>>

\* C13 as stated: with the openrouter selector, in the Proxied and in the Direct
\* handler, no entry of the request's history is sent to the provider: the message
\* list is the current user turn alone (the system prompt travels beside it)
C13_AsClaimed ==
  \A r \in Slots :
    (/\ config.variant \in {"proxied", "direct"}
     /\ config.llmProvider = "openrouter"
     /\ req[r].pc = "generating") =>
      /\ Len(req[r].sent) = 1
      /\ req[r].sent[1].role = "user"

\* the configuration was given to createPortfolioHandler or createBackendHandler
MultiProvider == config.variant \in {"proxied", "direct"}

\* no POST of the handler has ever been entered
NeverServed == \A r \in Slots : req[r] = IdleReq

LacksKey(c) ==
  c.llmApiKey = "" \/ c.supermemoryApiKey = "" \/ c.supermemoryContainer = ""

\* C14: a configuration without llmApiKey, supermemoryApiKey or
\* supermemoryContainer makes createPortfolioHandler and createBackendHandler
\* throw: no handler exists and no request is ever handled
C14_KeysRequired ==
  (MultiProvider /\ LacksKey(config)) =>
    /\ ~PortfolioConstructs(config)
    /\ ~BackendConstructs(config)
    /\ NeverServed

C14_Witness ==
  /\ config.variant = "direct"
  /\ config.supermemoryContainer = ""
  /\ NeverServed

\* C15 as stated: a selector that is not a supported provider makes the
\* construction of both multi-provider handlers fail, so that no request is ever
\* accepted
C15_AsClaimed ==
  (MultiProvider /\ config.llmProvider \notin RouterProviders) => NeverServed

\* a collaborator of the request threw: the document search or the generation
UpstreamFailed(rq) == rq.pc = "done" /\ (rq.searchThrew \/ rq.generated = "threw")

\* C16 as stated: in every handler an upstream failure with status 401 is answered
\* 401 with the message about the API keys, one with status 404 is answered 404,
\* and one without a status is answered 500 with the underlying message if there
\* is one, otherwise with the generic message
C16_AsClaimed ==
  \A r \in Slots :
    UpstreamFailed(req[r]) =>
      LET e == req[r].thrown
          resp == req[r].resp
      IN /\ e.status = 401 => (resp.status = 401 /\ resp.error = InvalidApiKey)
         /\ e.status = 404 => resp.status = 404
         /\ e.status = 0 =>
              /\ resp.status = 500
              /\ resp.error = IF e.message # "" THEN e.message
                              ELSE "Internal server error"

\* C17: a POST calls the document search at most once and the model at most once,
\* whatever the outcome of either call; a failed call is not issued again
C17_NoRetries ==
  \A r \in Slots :
    /\ req[r].nSearch <= 1
    /\ req[r].nGenerate <= 1

C17_Witness ==
  \E r \in Slots :
    /\ config.variant = "direct"
    /\ req[r].pc = "done"
    /\ req[r].generated = "threw"
    /\ req[r].nSearch = 1
    /\ req[r].nGenerate = 1

\* C18: with the Proxied or the Direct handler the session store never gains an
\* entry, whatever requests are served and however they end, and the client the
\* Direct handler generates with is the provider's own endpoint, so that its only
\* call to the memory service is the document search
C18_ReadOnly ==
  MultiProvider =>
    /\ \A s \in SessionIds : sessionStore[s] = 0 /\ turns[s] = 0
    /\ \A x \in Refs : heap[x] = <<>>
    /\ config.variant = "direct" =>
         \A i \in 1 .. Len(BackendBaseURL(config.llmProvider)) :
           BackendBaseURL(config.llmProvider)[i] # MemoryRouter

C18_Witness ==
  \E r \in Slots :
    /\ config.variant = "direct"
    /\ req[r].pc = "done"
    /\ req[r].resp.status = 200
    /\ req[r].nSearch = 1
    /\ req[r].nGenerate = 1
    /\ req[r].body.history # <<>>
    /\ sessionStore[req[r].body.sessionId] = 0

\* C19 as stated: the headers of the Proxied handler's provider client carry the
\* configured container as x-sm-user-id and the configured memory-service key as
\* x-supermemory-api-key
C19_AsClaimed ==
  \A r \in Slots :
    (config.variant = "proxied" /\ req[r].pc = "generating") =>
      /\ PortfolioHeaders(config).userId = config.supermemoryContainer
      /\ PortfolioHeaders(config).apiKey = config.supermemoryApiKey

\* the turns before the current one in the provider call of slot r are the turns
\* stored for the session of the request, in their order
SendsStored(r) ==
  LET sent == req[r].sent
      stored == Stored(req[r].body.sessionId)
  IN /\ Len(sent) = Len(stored) + 1
     /\ \A i \in 1 .. Len(stored) :
          sent[i].role = stored[i].role /\ sent[i].content = stored[i].content

\* the Manual handler awaits the model for the request of slot r
ManualCall(r) == config.variant = "manual" /\ req[r].pc = "generating"

\* C20 as stated: the prior turns of every provider call of the Manual handler
\* are exactly the turns stored for the sessionId by earlier completed requests
C20_AsClaimed == \A r \in Slots : ManualCall(r) => SendsStored(r)

\* C20: when requests do not overlap, the prior turns of the provider call of a
\* request without client history are exactly the turns stored for its sessionId
\* by earlier completed requests; a request with a history sends that history
C20_StoredHistory ==
  \A r \in Slots :
    ManualCall(r) =>
      IF req[r].body.history = <<>> THEN SendsStored(r)
      ELSE /\ Len(req[r].sent) = Len(req[r].body.history) + 1
           /\ \A i \in 1 .. Len(req[r].body.history) :
                /\ req[r].sent[i].role = req[r].body.history[i].role
                /\ req[r].sent[i].content = req[r].body.history[i].content

C20_Witness ==
  \E r \in Slots :
    /\ ManualCall(r)
    /\ req[r].body.history = <<>>
    /\ Len(Stored(req[r].body.sessionId)) = 2
    /\ Len(req[r].sent) = 3

\* C21: a session id held by local storage is never overwritten, a mounted widget
\* uses the id local storage holds, and every request the widget sends carries it
C21_SessionIdReused ==
  [][/\ localStorage # "" => localStorage' = localStorage
     /\ widget'.mounted => (localStorage' # "" /\ widget'.sessionId = localStorage')
     /\ net'.fetches > net.fetches => net'.request.sessionId = localStorage'
    ]_vars

C21_Witness ==
  /\ widget.mounted
  /\ widget.pc = "fetching"
  /\ net.fetches = 2
  /\ Len(widget.messages) = 2
  /\ net.request.sessionId = localStorage

\* the external calls of the handlers settle: the document search and the
\* generation return or throw
Returns ==
  /\ \/ \E r \in Served, out \in SearchOutcomes : ManualSearchReturn(r, out)
     \/ \E r \in Served, out \in GenOutcomes : ManualGenerateReturn(r, out)
     \/ \E r \in Served, out \in GenOutcomes : PortfolioGenerateReturn(r, out)
     \/ \E r \in Served, out \in SearchOutcomes : BackendSearchReturn(r, out)
     \/ \E r \in Served, out \in GenOutcomes : BackendGenerateReturn(r, out)
  /\ UNCHANGED widgetVars

SpecFair == Spec /\ WF_vars(Returns)

Statuses == {200, 400, 401, 404, 500}

\* C22: when the external calls settle, a POST that awaits one of them returns a
\* response later, with a success or an error status, in every handler
C22_Responds ==
  \A r \in Served :
    InFlight(req[r]) ~> (req[r].pc = "done" /\ req[r].resp.status \in Statuses)

C22_Witness ==
  \E r \in Served :
    /\ config.variant = "direct"
    /\ req[r].pc = "done"
    /\ req[r].nSearch = 1
    /\ req[r].resp.status = 500
    /\ req[r].resp.error = "Unsupported provider"

\* the entry is one the Direct handler keeps: a role of a conversation and a
\* content that is not empty once trimmed
Kept(e) ==
  /\ e.role \in {"user", "assistant", "system"}
  /\ e.content # <<>>
  /\ Len(Trim(e.content)) > 0

\* p is h without the entries that are not kept, in the order of h, each content
\* trimmed
FilteredFrom(p, h) ==
  LET idx == {i \in 1 .. Len(h) : Kept(h[i])}
  IN /\ Len(p) = Cardinality(idx)
     /\ \A i \in idx :
          p[Cardinality({j \in idx : j <= i})] =
            [role |-> h[i].role, content |-> Trim(h[i].content)]

\* the Direct handler awaits the model with the message list of a provider that
\* takes a history
HistoryCall(r) ==
  /\ config.variant = "direct"
  /\ config.llmProvider # "openrouter"
  /\ req[r].pc = "generating"

\* C23: the history the Direct handler sends (string contents) is the caller's
\* history without the entries whose content is empty or whitespace or whose role
\* is not user, assistant or system, in the caller's order and with each content
\* trimmed; processing it again changes nothing
C23_HistoryFilter ==
  \A r \in Slots :
    HistoryCall(r) =>
      LET p == SubSeq(req[r].sent, 1, Len(req[r].sent) - 1)
      IN /\ FilteredFrom(p, req[r].body.history)
         /\ ProcessedHistory(p) = p

C23_Witness ==
  \E r \in Slots :
    /\ HistoryCall(r)
    /\ Len(req[r].body.history) = 3
    /\ Len(req[r].sent) = 3
    /\ req[r].sent[1].content = <<"b">>

\* the document has a text that is not empty: its content, its summary, the
\* summary of its metadata (the description when there is no summary field), or
\* the content of a chunk
YieldsText(doc) ==
  \/ doc.content # Undefined /\ doc.content # <<>>
  \/ doc.summary # Undefined /\ doc.summary # <<>>
  \/ doc.metaSummary # Undefined /\ doc.metaSummary # <<>>
  \/ doc.metaSummary = Undefined /\ doc.metaDescription # Undefined
                                 /\ doc.metaDescription # <<>>
  \/ \E i \in 1 .. Len(doc.chunks) : doc.chunks[i] # Undefined /\ doc.chunks[i] # <<>>

\* the Manual or the Direct handler goes from the search call to the model call
Frames(r, out) ==
  /\ ~out.throws
  /\ ManualSearchReturn(r, out) \/ BackendSearchReturn(r, out)
  /\ req'[r].pc = "generating"

\* C24: in the Manual and the Direct handler a search result whose results are no
\* list counts as no document; the context is empty exactly when no document has
\* a text that is not empty; and the user turn sent to the model starts with the
\* fallback instruction when the context is empty and with the context between
\* its heading and the framing instruction otherwise, the question following
C24_ContextFraming ==
  [][\A r \in Served, out \in SearchOutcomes :
       Frames(r, out) =>
         LET docs == req'[r].documents
             turn == Last(req'[r].sent).content
             none == \A i \in 1 .. Len(docs) : ~YieldsText(docs[i])
         IN /\ docs = (IF out.isArray THEN out.results ELSE <<>>)
            /\ (Context(docs) = <<>>) <=> none
            /\ Last(req'[r].sent).role = "user"
            /\ IsPrefix(IF none THEN <<Fallback, QuestionTag>>
                        ELSE <<CtxHead>> \o Context(docs) \o <<CtxTail, QuestionTag>>,
                        turn)
    ]_vars

C24_Witness ==
  \E r \in Served :
    /\ config.variant = "direct"
    /\ req[r].pc = "generating"
    /\ Len(req[r].documents) = 1
    /\ req[r].documents[1].metaDescription = <<"m">>
    /\ req[r].documents[1].metaSummary = <<>>
    /\ Last(req[r].sent).content[1] = Fallback

\* the widget is in a streamed response: it awaits a read of the body
Reading(w) == w.mounted /\ w.pc = "reading"

\* C25: while a response is streamed, from its first read until the widget is
\* Idle again, the transcript is what the send made of it (the entries the
\* request carries, the user turn last, and one assistant entry after them): its
\* length stays the same and every entry but the last is unchanged; a chunk
\* replaces the last entry only
C25_OnlyLastChanges ==
  [][(Reading(widget) \/ Reading(widget')) =>
       /\ Len(widget'.messages) = Len(net'.request.history) + 1
       /\ SubSeq(widget'.messages, 1, Len(widget'.messages) - 1) = net'.request.history
       /\ widget'.messages[Len(widget'.messages) - 1].role = "user"
       /\ Last(widget'.messages).role = "assistant"
       /\ Reading(widget) => Len(widget'.messages) = Len(widget.messages)
    ]_vars

C25_Witness ==
  /\ widget.pc = "idle"
  /\ net.last = "streamed"
  /\ widget.chunkCount = 2
  /\ net.fetches = 2
  /\ Len(widget.messages) = 4
  /\ Last(widget.messages).content = widget.streamedContent

-----------------------------------------------------------------------------
(* SpecRace: the Manual handler serving two requests at a time, for one
   sessionId or for two *)

\* turns a session accepts under SpecRace
MaxRaceTurns == 3

\* POSTs SpecRace accepts while another POST is in flight
MaxRaceOverlaps == 1

RaceBodies ==
  {Body(TRUE, <<"a">>, s, h) :
     s \in SessionIds, h \in {<<>>, <<ChatMessage("user", <<"h">>, 0)>>}}

RacePost(r, body) ==
  /\ turns[body.sessionId] < MaxRaceTurns
  /\ ManualPost(r, body)
  /\ overlaps' <= MaxRaceOverlaps
  /\ UNCHANGED widgetVars

NextRace ==
  \/ \E r \in Slots, body \in RaceBodies : RacePost(r, body)
  \/ \E r \in Slots, out \in CapSearchOutcomes : CapSearchReturn(r, out)
  \/ \E r \in Slots, out \in CapGenOutcomes : CapGenerateReturn(r, out)

SpecRace == InitCap /\ [][NextRace]_vars

\* the request of slot r takes a step, for the session it names
Steps(r, s) == req'[r] # req[r] /\ req'[r].body.sessionId = s

\* C26: a step of a Manual request for one sessionId leaves everything of another
\* sessionId as it was: the history stored for it, and each request in flight for
\* it together with the history that request works on; so a request that runs
\* next to requests for other sessionIds stores what it would store alone
C26_Independent ==
  [][\A r \in Slots, s \in SessionIds :
       Steps(r, s) =>
         /\ \A t \in SessionIds \ {s} :
              /\ Stored(t)' = Stored(t)
              /\ (sessionStore'[t] = 0) <=> (sessionStore[t] = 0)
         /\ \A q \in Slots \ {r} :
              /\ req'[q] = req[q]
              /\ (InFlight(req[q]) /\ req[q].body.sessionId # s) =>
                   heap'[req[q].sessionHistory] = heap[req[q].sessionHistory]
    ]_vars

C26_Witness ==
  /\ req[1].pc = "done" /\ req[1].resp.status = 200 /\ req[1].body.sessionId = "s1"
  /\ req[2].pc = "generating" /\ req[2].body.sessionId = "s2"
  /\ overlaps >= 1
  /\ Len(Stored("s1")) = 2
  /\ Len(Stored("s2")) = 2

\* slot r awaits the model and slot q has completed, both for sessionId s and
\* without client history, and both read the session store before q wrote it
Raced(r, q, s) ==
  /\ r # q
  /\ req[r].pc = "generating" /\ req[q].pc = "done" /\ req[q].resp.status = 200
  /\ req[r].body.sessionId = s /\ req[q].body.sessionId = s
  /\ req[r].body.history = <<>> /\ req[q].body.history = <<>>
  /\ req[q].readAt = req[r].readAt
  /\ turns[s] = req[r].readAt + 2

\* slot r completes
Completes(r) == req[r].pc = "generating" /\ req'[r].pc = "done" /\ req'[r].resp.status = 200

\* the turn pair the completing request of slot r appends
TurnPair(r) ==
  <<ChatMessage("user", req[r].body.message, turns[req[r].body.sessionId] + 1),
    ChatMessage("assistant", req'[r].resp.answer, turns[req[r].body.sessionId] + 2)>>

\* the entries of h that were appended after clock value t
Since(h, t) == SelectSeq(h, LAMBDA e : e.timestamp > t)

\* C27 as stated: when the last writer of two raced requests completes, the stored
\* history holds, of the turns appended since both read it, the pair of the last
\* writer only
C27_AsClaimed ==
  [][\A r \in Slots, q \in Slots, s \in SessionIds :
       (Raced(r, q, s) /\ Completes(r)) =>
         Since(Stored(s)', req[r].readAt) = TurnPair(r)
    ]_vars

\* C27: when the last writer of two raced requests completes, the stored history
\* is the one it writes; if nothing was stored when both read, it holds the pair of
\* the last writer only; if a history was stored, both worked on that one array
\* and it ends with the pair of the first writer followed by the pair of the last
C27_LastWriter ==
  [][\A r \in Slots, q \in Slots, s \in SessionIds :
       (Raced(r, q, s) /\ Completes(r)) =>
         /\ sessionStore'[s] # 0
         /\ Stored(s)' = SliceLast(heap[req[r].sessionHistory] \o TurnPair(r), SessionCap)
         /\ IF req[r].readAt = 0
            THEN Stored(s)' = TurnPair(r)
            ELSE /\ Len(Since(Stored(s)', req[r].readAt)) = 4
                 /\ SubSeq(Since(Stored(s)', req[r].readAt), 3, 4) = TurnPair(r)
                 /\ Since(Stored(s)', req[r].readAt)[1].timestamp = req[r].readAt + 1
    ]_vars

C27_Witness ==
  \E r \in Slots, q \in Slots :
    /\ r # q
    /\ req[r].pc = "done" /\ req[q].pc = "done"
    /\ req[r].resp.status = 200 /\ req[q].resp.status = 200
    /\ req[r].body.sessionId = "s1" /\ req[q].body.sessionId = "s1"
    /\ req[r].body.history = <<>> /\ req[q].body.history = <<>>
    /\ req[r].readAt = 2 /\ req[q].readAt = 2
    /\ turns["s1"] = 6
    /\ Len(Stored("s1")) = 6

-----------------------------------------------------------------------------
(* SpecChat: one AutoChat instance as the client of one handler: the body of its
   fetch is the body of the POST, and the response of the POST settles the fetch *)

ChatConfigs ==
  {Config("manual", "anthropic", FALSE)}
  \cup {Config(v, p, st) : v \in {"proxied", "direct"},
                           p \in {"anthropic", "openrouter"}, st \in BOOLEAN}

ChatInputs == {<<"a", WS>>, <<"e">>}

ChatSearchOutcomes ==
  {SearchOk(<<>>), SearchOk(<<Doc(<<"d">>, Undefined, Undefined, Undefined, <<>>)>>)}

ChatGenOutcomes == {GenOk(<<"b">>), GenOk(<<>>), GenThrows(Err(0, "overloaded"))}

InitChat ==
  /\ config \in ChatConfigs
  /\ ServerInit
  /\ WidgetInit

\* the request of the widget has left and no POST has taken it yet
Arrives(r) == widget.pc = "fetching" /\ net.inFlight = 1 /\ req[r].pc = "idle"

\* what fetch resolves with for a response of a handler
Fetched(resp) ==
  [rejects |-> FALSE, ok |-> resp.status = 200,
   contentType |-> IF resp.kind = "stream" THEN "text/plain" ELSE "application/json",
   hasBody |-> TRUE]

\* the response of the POST resolves the fetch of the widget
Deliver(r) ==
  /\ req[r].pc = "done"
  /\ FetchSettles(Fetched(req[r].resp))
  /\ req' = [req EXCEPT ![r].pc = "idle"]
  /\ UNCHANGED <<config, sessionStore, heap, turns, serverHeld, overlaps>>

\* the request is lost on its way: fetch rejects
Lost(r) ==
  /\ Arrives(r)
  /\ FetchSettles([rejects |-> TRUE, ok |-> FALSE, contentType |-> "none",
                   hasBody |-> FALSE])
  /\ UNCHANGED serverVars

\* response.json() resolves with the body of the response
ParseBody(r) ==
  /\ JsonSettles([rejects |-> FALSE, answer |-> req[r].resp.answer])
  /\ UNCHANGED serverVars

\* the text of a streamed response arrives as one chunk
ReadBody(r) ==
  /\ widget.chunkCount = 0
  /\ Truthy(req[r].resp.answer)
  /\ StreamRead(req[r].resp.answer)
  /\ UNCHANGED serverVars

\* the stream of the response ends
EndBody(r) ==
  /\ widget.chunkCount = 1 \/ ~Truthy(req[r].resp.answer)
  /\ StreamDone
  /\ UNCHANGED serverVars

ChatSubmit ==
  /\ net.fetches < MaxSends
  /\ Submit
  /\ UNCHANGED serverVars

NextChat ==
  \/ Mount("s1") /\ UNCHANGED serverVars
  \/ \E text \in ChatInputs : Type(text) /\ UNCHANGED serverVars
  \/ ChatSubmit
  \/ \E r \in Served : Arrives(r) /\ ManualPost(r, net.request) /\ UNCHANGED widgetVars
  \/ \E r \in Served : Arrives(r) /\ PortfolioPost(r, net.request) /\ UNCHANGED widgetVars
  \/ \E r \in Served : Arrives(r) /\ BackendPost(r, net.request) /\ UNCHANGED widgetVars
  \/ \E r \in Served, out \in ChatSearchOutcomes :
       ManualSearchReturn(r, out) /\ UNCHANGED widgetVars
  \/ \E r \in Served, out \in ChatGenOutcomes :
       ManualGenerateReturn(r, out) /\ UNCHANGED widgetVars
  \/ \E r \in Served, out \in ChatGenOutcomes :
       PortfolioGenerateReturn(r, out) /\ UNCHANGED widgetVars
  \/ \E r \in Served, out \in ChatSearchOutcomes :
       BackendSearchReturn(r, out) /\ UNCHANGED widgetVars
  \/ \E r \in Served, out \in ChatGenOutcomes :
       BackendGenerateReturn(r, out) /\ UNCHANGED widgetVars
  \/ \E r \in Served : Deliver(r)
  \/ \E r \in Served : Lost(r)
  \/ \E r \in Served : ParseBody(r)
  \/ \E r \in Served : ReadBody(r)
  \/ \E r \in Served : EndBody(r)

SpecChat == InitChat /\ [][NextChat]_vars

\* the text occurs in the content
Occurs(text, content) ==
  \E i \in 1 .. Len(content) - Len(text) + 1 : SubSeq(content, i, i + Len(text) - 1) = text

\* the handler awaits the model for the request the widget has in flight, and the
\* message of that request is not the text of an earlier turn of the transcript
CurrentCall(r) ==
  /\ req[r].pc = "generating"
  /\ widget.pc = "fetching"
  /\ req[r].body = net.request
  /\ \A i \in 1 .. Len(net.request.history) - 1 :
       net.request.history[i].content # net.request.message

\* C28 as stated: the message list a handler sends to the model for a request of
\* the widget has exactly one user entry that holds the current user message
C28_AsClaimed ==
  \A r \in Served :
    CurrentCall(r) =>
      Cardinality({i \in 1 .. Len(req[r].sent) :
                     /\ req[r].sent[i].role = "user"
                     /\ Occurs(net.request.message, req[r].sent[i].content)}) = 1

\* the list holds a thinking placeholder
HasThinking(ms) == \E i \in 1 .. Len(ms) : ms[i].content = <<Thinking>>

\* C29 as stated: the history of a request of the widget holds no thinking
\* placeholder, and neither does the transcript of a widget that is Idle
C29_AsClaimed ==
  /\ ~HasThinking(net.request.history)
  /\ (widget.mounted /\ widget.pc = "idle") => ~HasThinking(widget.messages)

\* the store of sessionId s changes: the entry appears or its history differs
StoreChanges(s) ==
  \/ (sessionStore'[s] = 0) # (sessionStore[s] = 0)
  \/ Stored(s)' # Stored(s)

\* C30 as stated: the store of a sessionId changes only when a Manual request for
\* it completes, and then the stored history is the history stored before with
\* the user turn and the assistant turn of the request appended, cut to the cap
C30_AsClaimed ==
  [][\A s \in SessionIds :
       StoreChanges(s) =>
         \E r \in Slots :
           /\ Completes(r)
           /\ req[r].body.sessionId = s
           /\ Stored(s)' = SliceLast(Stored(s) \o TurnPair(r), SessionCap)
    ]_vars

\* C30: a Manual request that ends with a 400 or a 500 leaves the store as it
\* was; the store of a sessionId changes only when a request for it completes,
\* and then the stored history is the history the request works on (the client
\* history when it brought one, the stored array otherwise) with its user turn and
\* its assistant turn appended, cut to the cap
C30_StoreOnCompletion ==
  [][/\ \A s \in SessionIds :
          StoreChanges(s) =>
            \E r \in Slots :
              /\ Completes(r)
              /\ req[r].body.sessionId = s
              /\ Stored(s)' =
                   SliceLast(heap[req[r].sessionHistory] \o TurnPair(r), SessionCap)
     /\ \A r \in Slots :
          (req'[r] # req[r] /\ req'[r].pc = "done" /\ req'[r].resp.status # 200) =>
            \A s \in SessionIds : ~StoreChanges(s)
    ]_vars

C30_Witness ==
  \E r \in Served :
    /\ config.variant = "manual"
    /\ req[r].pc = "done"
    /\ req[r].resp.status = 500
    /\ req[r].generated = "threw"
    /\ req[r].body.sessionId = "s1"
    /\ Len(req[r].body.history) = 1
    /\ Len(Stored("s1")) = 2
    /\ sessionStore["s2"] = 0

====
